---- MODULE Spec2Model ----
(***************************************************************************)
(* LabLoop: the plan-generation client (services/geminiService.ts) and the *)
(* App component with its simulation effect (App.tsx), as a state machine. *)
(*                                                                         *)
(* Units.  Time is in milliseconds.  An accuracy is an integer number of   *)
(* 1e-5 (90000 is 0.9), a latency an integer number of 1e-3 ms, a draw of  *)
(* Math.random() an integer number of 1e-3 in 0..999, so that every        *)
(* product the checkpoints compute is exact.                               *)
(***************************************************************************)
EXTENDS Integers, Sequences, FiniteSets, TLC

(* ------------------------------ bounds --------------------------------- *)
\* Longest experiments array a response may carry.
MaxExps == 2
\* How many times handleGenerate may be invoked in one behaviour.
MaxGen == 2

(* --------------------------- program constants -------------------------- *)
\* one retry too many
maxRetriesFour == 3 + 1

maxRetries == 3
\* a run whose first checkpoint is due at once
FirstDelayNone == 1500 - 1500
FirstDelay == 1500
FinalizeDelay == 1500
GapDelay == 500

\* delayOffset += ... after checkpoints 1..7 of an experiment
StepDelays == <<800, 1200, 1000, 1500, 1200, 1200, 1500>>
\* progress written by checkpoints 1..8
Progress == <<0, 15, 30, 45, 60, 75, 90, 100>>

(* ------------------------------ input sets ------------------------------ *)
Goals == {"detect fraud"}
\* what the user may have typed into the form when submitting
Typed == Goals \cup {"", "  "}
Ids == {"a", "b"}
Accuracies == {1000, 90000, 150000}
Latencies == {20000}
Sizes == {10}
WinnerIds == {"a", "zz"}
\* Math.random() draws (1e-3), the two ends of [0, 1)
Draws == {0, 999}

\* messages of the errors ai.models.generateContent may reject with
ApiErrors ==
  {"fetch failed", "429 quota exceeded", "blocked by safety",
   "API Key not valid: quota 429", "safety block after quota"}

NullId == "<null>"
NoError == "<none>"
NoPlan == [isNull |-> TRUE]

(* ------------------------------- helpers -------------------------------- *)
\* { ...a, ...b }
Spread(a, b) ==
  [k \in (DOMAIN a) \cup (DOMAIN b) |-> IF k \in DOMAIN b THEN b[k] ELSE a[k]]

RECURSIVE Pow2(_)
Pow2(n) == IF n = 0 THEN 1 ELSE 2 * Pow2(n - 1)

SeqsUpTo(S, n) == UNION {[1..k -> S] : k \in 0..n}

(* --------------------- payloads of a parsed response -------------------- *)
Metrics == [accuracy: Accuracies, latencyMs: Latencies, modelSizeMb: Sizes]

PayloadExps ==
  [id: Ids, name: {"model"}, description: {"why"}, simulatedMetrics: Metrics]

\* JSON.parse(response.text) for a text that parses to an object with experiments
FullPayloads ==
  [planTitle: {"title"}, goalAnalysis: {"analysis"},
   experiments: SeqsUpTo(PayloadExps, MaxExps),
   recommendedWinnerId: WinnerIds, summary: {"summary"}]

\* a text that parses to an object without the experiments array
NoExperimentsPayload ==
  [planTitle |-> "title", goalAnalysis |-> "analysis",
   recommendedWinnerId |-> "a", summary |-> "summary"]

\* a text that parses to an object without the summary the schema requires
NoSummaryPayload ==
  [planTitle |-> "title", goalAnalysis |-> "analysis",
   experiments |-> <<[id |-> "a", name |-> "model", description |-> "why",
                      simulatedMetrics |-> [accuracy |-> 90000, latencyMs |-> 20000,
                                            modelSizeMb |-> 10]]>>,
   recommendedWinnerId |-> "a"]

\* a text whose one experiment lacks the description the schema requires
NoDescriptionPayload ==
  [planTitle |-> "title", goalAnalysis |-> "analysis",
   experiments |-> <<[id |-> "b", name |-> "model",
                      simulatedMetrics |-> [accuracy |-> 90000, latencyMs |-> 20000,
                                            modelSizeMb |-> 10]]>>,
   recommendedWinnerId |-> "zz", summary |-> "summary"]

\* a text whose one experiment already carries status, progress and liveMetrics
PresetPayload ==
  [planTitle |-> "title", goalAnalysis |-> "analysis",
   experiments |-> <<[id |-> "a", name |-> "model", description |-> "why",
                      simulatedMetrics |-> [accuracy |-> 90000, latencyMs |-> 20000,
                                            modelSizeMb |-> 10],
                      status |-> "completed", progress |-> 100,
                      liveMetrics |-> [accuracy |-> 90000, latencyMs |-> 20000,
                                       modelSizeMb |-> 10]]>>,
   recommendedWinnerId |-> "a", summary |-> "summary"]

Payloads ==
  FullPayloads \cup {NoExperimentsPayload, NoSummaryPayload, NoDescriptionPayload,
                     PresetPayload}

\* the `required` lists of responseSchema
RequiredPlanFields ==
  {"planTitle", "goalAnalysis", "experiments", "recommendedWinnerId", "summary"}
RequiredExperimentFields == {"id", "name", "description", "simulatedMetrics"}
RequiredMetricFields == {"accuracy", "latencyMs", "modelSizeMb"}

\* what one call of generateContent may bring back
Responses ==
  [kind: {"reject"}, msg: ApiErrors]
    \cup {[kind |-> "empty"], [kind |-> "badjson"]}
    \cup [kind: {"json"}, data: Payloads]

(* ------------------ generateExperimentPlan, one attempt ----------------- *)
InitialLiveMetrics == [accuracy |-> 0, latencyMs |-> 0, modelSizeMb |-> 0]

\* the spreads the other way round: { status: 'pending', ..., ...exp }
PlanOfKeepsPayload(data) ==
  Spread(data,
    [experiments |->
       [i \in 1..Len(data.experiments) |->
          Spread([status |-> "pending", progress |-> 0,
                  liveMetrics |-> InitialLiveMetrics],
                 data.experiments[i])]])

\* the object an attempt returns for parsed data (geminiService.ts 77-89)
PlanOf(data) ==
  Spread(data,
    [experiments |->
       [i \in 1..Len(data.experiments) |->
          Spread(data.experiments[i],
                 [status |-> "pending", progress |-> 0,
                  liveMetrics |-> InitialLiveMetrics])]])

\* the try body of one attempt: [ok, plan] or [ok, msg] (the thrown error)
AttemptResult(resp) ==
  CASE resp.kind = "reject" -> [ok |-> FALSE, msg |-> resp.msg]
    [] resp.kind = "empty" -> [ok |-> FALSE, msg |-> "No response from Gemini"]
    [] resp.kind = "badjson" -> [ok |-> FALSE, msg |-> "SyntaxError: Unexpected token"]
    [] resp.kind = "json" ->
         IF "experiments" \in DOMAIN resp.data
           THEN [ok |-> TRUE, plan |-> PlanOf(resp.data)]
           ELSE [ok |-> FALSE,
                 msg |-> "TypeError: Cannot read properties of undefined (reading 'map')"]

\* a backoff that grows by 1000 ms instead of doubling
backoffMsLinear(attempt) == (attempt + 1) * 1000

backoffMs(attempt) == Pow2(attempt) * 1000

(* -------------------------------- state --------------------------------- *)
VARIABLES
  apiKey,               \* process.env.API_KEY is set
  mounted,              \* the App component is mounted
  status, plan, logs, currentExperimentId, error, lastGoal, isFinalizing,
  gen,                  \* the generateExperimentPlan invocation in flight
  genCount,             \* handleGenerate invocations that passed the key check
  runs,                 \* the closures of the simulation effect, one per run
  effectRun,            \* the run whose cleanup React holds, 0 if none
  timers,               \* pending setTimeout timers
  trace                 \* calls made by guarded timer callbacks since the last handleGenerate

appVars == <<status, plan, logs, currentExperimentId, error, lastGoal, isFinalizing>>
vars == <<apiKey, mounted, status, plan, logs, currentExperimentId, error, lastGoal,
          isFinalizing, gen, genCount, runs, effectRun, timers, trace>>

IdleGen ==
  [pc |-> "idle", attempt |-> 0, lastError |-> NoError, thrown |-> NoError,
   starts |-> <<>>, clock |-> 0, data |-> NoPlan, result |-> NoPlan, caller |-> "none",
   overlap |-> FALSE]

\* a run whose closure nothing references any more
Dead == [isMounted |-> FALSE, exps |-> <<>>, clock |-> 0, timeoutIds |-> {}]

Init ==
  /\ apiKey \in BOOLEAN
  /\ mounted = TRUE
  /\ status = "IDLE"
  /\ plan = NoPlan
  /\ logs = <<>>
  /\ currentExperimentId = NullId
  /\ error = NoError
  /\ lastGoal = ""
  /\ isFinalizing = FALSE
  /\ gen = IdleGen
  /\ genCount = 0
  /\ runs = <<>>
  /\ effectRun = 0
  /\ timers = {}
  /\ trace = <<>>

isApiKeyMissing == ~apiKey

(* -------------------------------- timers -------------------------------- *)
Clock(owner) == IF owner = 0 THEN gen.clock ELSE runs[owner].clock
Remaining(t) == t.due - Clock(t.run)

\* timers fire by due time; two timers of one owner due together fire in creation order
CanFire(t) ==
  \A u \in timers \ {t} :
    ~ \/ Remaining(u) < Remaining(t)
      \/ Remaining(u) = Remaining(t) /\ u.run = t.run /\ u.idx < t.idx

\* a run is dropped once it is unmounted and no timer references its closure
Collect(rs, ts) ==
  [r \in DOMAIN rs |->
     IF ~rs[r].isMounted /\ ~\E t \in ts : t.run = r THEN Dead ELSE rs[r]]

Advance(rs, d) ==
  [r \in DOMAIN rs |-> IF rs[r] = Dead THEN Dead ELSE [rs[r] EXCEPT !.clock = @ + d]]

(* ------------------------------ App helpers ----------------------------- *)
\* a log message: its fixed text, the experiment number and the name it interpolates
Msg(text, n, name) == [text |-> text, n |-> n, name |-> name]

\* a log that puts the new entry first: [entry, ...prev]
addLogPrepends(lg, message, type) == <<[message |-> message, type |-> type]>> \o lg

addLog(lg, message, type) == Append(lg, [message |-> message, type |-> type])

\* an update without the id test: every experiment is patched
updateExperimentStateAll(pl, expId, updates) ==
  IF pl = NoPlan THEN NoPlan
  ELSE LET patch(e) ==
             Spread(Spread(e, updates),
                    [liveMetrics |-> IF "liveMetrics" \in DOMAIN updates
                                       THEN updates.liveMetrics ELSE e.liveMetrics])
       IN [pl EXCEPT !.experiments =
             [i \in 1..Len(pl.experiments) |-> patch(pl.experiments[i])]]

\* an update that stores the live numbers in simulatedMetrics as well
updateExperimentStateOverwrites(pl, expId, updates) ==
  IF pl = NoPlan THEN NoPlan
  ELSE LET patch(e) ==
             Spread(Spread(e, updates),
                    [simulatedMetrics |-> IF "liveMetrics" \in DOMAIN updates
                                            THEN updates.liveMetrics ELSE e.simulatedMetrics])
       IN [pl EXCEPT !.experiments =
             [i \in 1..Len(pl.experiments) |->
                IF pl.experiments[i].id = expId THEN patch(pl.experiments[i])
                ELSE pl.experiments[i]]]

updateExperimentState(pl, expId, updates) ==
  IF pl = NoPlan THEN NoPlan
  ELSE LET patch(e) ==
             Spread(Spread(e, updates),
                    [liveMetrics |-> IF "liveMetrics" \in DOMAIN updates
                                       THEN updates.liveMetrics ELSE e.liveMetrics])
       IN [pl EXCEPT !.experiments =
             [i \in 1..Len(pl.experiments) |->
                IF pl.experiments[i].id = expId THEN patch(pl.experiments[i])
                ELSE pl.experiments[i]]]

(* ------------------------ the state as one value ------------------------ *)
\* what handlers, callbacks and effects read and write
World ==
  [status |-> status, plan |-> plan, logs |-> logs,
   currentExperimentId |-> currentExperimentId, error |-> error,
   lastGoal |-> lastGoal, isFinalizing |-> isFinalizing,
   runs |-> runs, timers |-> timers, effectRun |-> effectRun, trace |-> trace]

\* React drops the state updates of an unmounted component
SetState(w, new) == IF mounted THEN Spread(w, new) ELSE w

(* -------------------------- the simulation effect ----------------------- *)
\* what delayOffset is increased by after the k-th setTimeout of the loop
Increment(k) == IF k % 8 = 0 THEN GapDelay ELSE StepDelays[k % 8]

\* `let delayOffset = 1500` moved into the loop: every experiment starts at once
RECURSIVE delayOffsetPerExperiment(_)
delayOffsetPerExperiment(k) ==
  IF (k - 1) % 8 = 0 THEN FirstDelay ELSE delayOffsetPerExperiment(k - 1) + Increment(k - 1)

RECURSIVE delayOffset(_)
delayOffset(k) == IF k = 1 THEN FirstDelay ELSE delayOffset(k - 1) + Increment(k - 1)

\* the dependency array [status, plan?.experiments.length]
Deps(st, pl) == <<st, IF pl = NoPlan THEN -1 ELSE Len(pl.experiments)>>

\* an effect that returns no cleanup
CleanupMissing(w, r) == w

\* a cleanup that flips the flag: isMounted = !isMounted
CleanupToggles(w, r) ==
  [w EXCEPT !.runs = [@ EXCEPT ![r].isMounted = ~@],
            !.timers = {t \in @ : ~(t.run = r /\ t.idx \in w.runs[r].timeoutIds)}]

\* the cleanup the effect returns: isMounted = false; timeoutIds.forEach(clearTimeout)
Cleanup(w, r) ==
  [w EXCEPT !.runs = [@ EXCEPT ![r].isMounted = FALSE],
            !.timers = {t \in @ : ~(t.run = r /\ t.idx \in w.runs[r].timeoutIds)}]

\* runSimulation(): three log lines, then every checkpoint timer and the finalize timer
runSimulation(w) ==
  LET r == Len(w.runs) + 1
      n == Len(w.plan.experiments)
      ids == 1..(8 * n + 1)
  IN [w EXCEPT
        !.logs = addLog(addLog(addLog(@, Msg("Initializing experiment environment", 0, ""),
                                      "info"),
                               Msg("Allocating virtual resources", 0, ""), "info"),
                        Msg("Loaded plan", 0, w.plan.planTitle), "info"),
        !.runs = Append(@, [isMounted |-> TRUE, exps |-> w.plan.experiments,
                            clock |-> 0, timeoutIds |-> ids]),
        !.timers = @ \cup {[run |-> r, idx |-> k, due |-> delayOffset(k)] : k \in ids},
        !.effectRun = r]

\* the effect body: if (status !== EXECUTING || !plan) return; ... runSimulation()
EffectBody(w) ==
  IF w.status # "EXECUTING" \/ w.plan = NoPlan THEN [w EXCEPT !.effectRun = 0]
  ELSE runSimulation(w)

\* React after a render: when a dependency changed, the old cleanup, then the effect
Effect(w) ==
  IF ~mounted \/ Deps(w.status, w.plan) = Deps(status, plan) THEN w
  ELSE EffectBody(IF w.effectRun # 0 THEN Cleanup(w, w.effectRun) ELSE w)

Commit(w) ==
  /\ status' = w.status
  /\ plan' = w.plan
  /\ logs' = w.logs
  /\ currentExperimentId' = w.currentExperimentId
  /\ error' = w.error
  /\ lastGoal' = w.lastGoal
  /\ isFinalizing' = w.isFinalizing
  /\ runs' = Collect(w.runs, w.timers)
  /\ timers' = w.timers
  /\ effectRun' = w.effectRun
  /\ trace' = w.trace

(* ------------------------------- ResultsView ---------------------------- *)
\* what `find` and `experiments[0]` give when there is nothing to give
Undefined == [undefined |-> TRUE]

\* experiments.find(e => e.id === recommendedWinnerId) || experiments[0]
winner(pl) ==
  LET found == {i \in 1..Len(pl.experiments) :
                  pl.experiments[i].id = pl.recommendedWinnerId}
  IN IF found # {} THEN pl.experiments[CHOOSE i \in found : \A j \in found : i <= j]
     ELSE IF Len(pl.experiments) >= 1 THEN pl.experiments[1]
     ELSE Undefined

\* the mark of a chart or table row: exp.id === plan.recommendedWinnerId
isWinner(pl, exp) == exp.id = pl.recommendedWinnerId

\* App renders ResultsView when COMPLETED or finalizing, with a plan
ShowsResults(w) ==
  /\ w.status \in {"EXECUTING", "COMPLETED"}
  /\ w.plan # NoPlan
  /\ w.status = "COMPLETED" \/ w.isFinalizing

\* ResultsView reads winner.name: a TypeError when winner is undefined
RenderThrows(w) == ShowsResults(w) /\ winner(w.plan) = Undefined

\* React unmounts App: the cleanup of the effect runs
Unmounted(w) ==
  [(IF w.effectRun # 0 THEN Cleanup(w, w.effectRun) ELSE w) EXCEPT !.effectRun = 0]

\* a handler or callback ran: React renders and runs the effect; a render that throws
\* has no error boundary above it, so React unmounts the whole tree
Render(w) ==
  IF mounted /\ RenderThrows(w)
    THEN mounted' = FALSE /\ Commit(Unmounted(w))
    ELSE mounted' = mounted /\ Commit(Effect(w))

(* ----------------------------- timer callbacks -------------------------- *)
\* the `updates` object of checkpoint c for the captured experiment exp;
\* ra and rl are the draws of Math.random() for the accuracy and the latency
Updates(exp, c, ra, rl) ==
  LET finalAcc == exp.simulatedMetrics.accuracy
      finalLat == exp.simulatedMetrics.latencyMs
      finalSize == exp.simulatedMetrics.modelSizeMb
      live(acc, lat) == [accuracy |-> acc, latencyMs |-> lat, modelSizeMb |-> finalSize]
  IN CASE c = 1 -> [progress |-> 0, status |-> "running"]
       [] c = 2 -> [progress |-> 15]
       [] c = 3 -> [progress |-> 30]
       [] c = 4 -> [progress |-> 45,
                    liveMetrics |-> live(finalAcc \div 10 + 5 * ra,
                                         (finalLat * (3000 + rl)) \div 2000)]
       [] c = 5 -> [progress |-> 60,
                    liveMetrics |-> live((finalAcc * 6) \div 10 + 5 * ra,
                                         (finalLat * (6000 + rl)) \div 5000)]
       [] c = 6 -> [progress |-> 75,
                    liveMetrics |-> live((finalAcc * 9) \div 10 + 2 * ra,
                                         (finalLat * (21000 + rl)) \div 20000)]
       [] c = 7 -> [progress |-> 90,
                    liveMetrics |-> live((finalAcc * 98) \div 100, finalLat)]
       [] c = 8 -> [progress |-> 100, status |-> "completed",
                    liveMetrics |-> live(finalAcc, finalLat)]

LogText(c) ==
  CASE c = 1 -> "Starting Experiment"
    [] c = 2 -> "Loading and normalizing dataset"
    [] c = 3 -> "Initializing model architecture and weights"
    [] c = 4 -> "Starting training loop"
    [] c = 5 -> "Epoch 1/10"
    [] c = 6 -> "Epoch 10/10"
    [] c = 7 -> "Evaluating on validation set"
    [] c = 8 -> "Completed"

LogType(c) == IF c = 7 THEN "warning" ELSE IF c = 8 THEN "success" ELSE "info"

\* a callback's call, with the time since the run started at which it is made
Event(w, r, kind, i, p) ==
  [run |-> r, kind |-> kind, exp |-> i, progress |-> p, at |-> w.runs[r].clock]

\* callbacks without the isMounted check
GuardMissing(run) == TRUE

\* every timer callback starts with `if (!isMounted) return`
Guard(run) == run.isMounted

\* the callback of the k-th timer of the loop, k = 8 (i - 1) + c
Checkpoint(w, r, k, ra, rl) ==
  LET i == ((k - 1) \div 8) + 1
      c == ((k - 1) % 8) + 1
      exp == w.runs[r].exps[i]
      called == [w EXCEPT !.trace = Append(@, Event(w, r, "checkpoint", i, Progress[c]))]
  IN IF ~Guard(w.runs[r]) THEN w
     ELSE SetState(called,
            [currentExperimentId |-> IF c = 1 THEN exp.id ELSE w.currentExperimentId,
             plan |-> updateExperimentState(w.plan, exp.id, Updates(exp, c, ra, rl)),
             logs |-> addLog(w.logs, Msg(LogText(c), i, exp.name), LogType(c))])

\* the id of the timer the finalize callback starts and does not push to timeoutIds
NestedIdx(run) == 8 * Len(run.exps) + 2

\* a finalize callback that leaves currentExperimentId as it is
FinalizeKeepsCurrent(w, r) ==
  LET run == w.runs[r]
      called == [w EXCEPT
                   !.trace = Append(@, Event(w, r, "finalize", 0, 0)),
                   !.timers = @ \cup {[run |-> r, idx |-> NestedIdx(run),
                                       due |-> run.clock + FinalizeDelay]}]
  IN IF ~Guard(run) THEN w
     ELSE SetState(called,
            [logs |-> addLog(addLog(w.logs,
                                    Msg("All experiments completed successfully", 0, ""),
                                    "success"),
                             Msg("Generating final comparative report", 0, ""), "info"),
             isFinalizing |-> TRUE])

\* a finalize callback that completes the plan itself, with no nested timer
FinalizeCompletesAtOnce(w, r) ==
  LET run == w.runs[r]
      called == [w EXCEPT !.trace = Append(@, Event(w, r, "complete", 0, 0))]
  IN IF ~Guard(run) THEN w
     ELSE SetState(called,
            [currentExperimentId |-> NullId,
             logs |-> addLog(addLog(w.logs,
                                    Msg("All experiments completed successfully", 0, ""),
                                    "success"),
                             Msg("Generating final comparative report", 0, ""), "info"),
             status |-> "COMPLETED"])

\* the callback of the last tracked timer
Finalize(w, r) ==
  LET run == w.runs[r]
      called == [w EXCEPT
                   !.trace = Append(@, Event(w, r, "finalize", 0, 0)),
                   !.timers = @ \cup {[run |-> r, idx |-> NestedIdx(run),
                                       due |-> run.clock + FinalizeDelay]}]
  IN IF ~Guard(run) THEN w
     ELSE SetState(called,
            [currentExperimentId |-> NullId,
             logs |-> addLog(addLog(w.logs,
                                    Msg("All experiments completed successfully", 0, ""),
                                    "success"),
                             Msg("Generating final comparative report", 0, ""), "info"),
             isFinalizing |-> TRUE])

\* the callback of the nested timer
Complete(w, r) ==
  LET called == [w EXCEPT !.trace = Append(@, Event(w, r, "complete", 0, 0))]
  IN IF ~Guard(w.runs[r]) THEN w
     ELSE SetState(called, [status |-> "COMPLETED", isFinalizing |-> FALSE])

Callback(w, t, ra, rl) ==
  LET n == Len(w.runs[t.run].exps)
  IN IF t.idx <= 8 * n THEN Checkpoint(w, t.run, t.idx, ra, rl)
     ELSE IF t.idx = 8 * n + 1 THEN Finalize(w, t.run)
     ELSE Complete(w, t.run)

\* time passes until timer t of a simulation run is due, and its callback runs
FireTimer ==
  \E t \in timers, ra \in Draws, rl \in Draws :
    /\ t.run # 0
    /\ CanFire(t)
    /\ LET d == Remaining(t)
           w == [World EXCEPT !.timers = @ \ {t}, !.runs = Advance(@, d)]
       IN /\ Render(Callback(w, t, ra, rl))
          /\ gen' = IF gen.pc = "idle" THEN gen ELSE [gen EXCEPT !.clock = @ + d]
    /\ UNCHANGED <<apiKey, genCount>>

(* ------------------------ generateExperimentPlan ------------------------ *)
\* a call that sends the request without looking at the key
generateExperimentPlanNoKeyCheck == [IdleGen EXCEPT !.pc = "calling", !.starts = <<0>>]

\* the call until its first await: the key check, then the request of attempt 0
generateExperimentPlan ==
  IF ~apiKey THEN [IdleGen EXCEPT !.pc = "rejected", !.lastError = "API Key is missing"]
  ELSE [IdleGen EXCEPT !.pc = "calling", !.starts = <<0>>]

\* a catch block that keeps the first error it saw
CaughtKeepsFirst(g, msg) ==
  LET kept == IF g.lastError = NoError THEN msg ELSE g.lastError
  IN IF g.attempt < maxRetries
       THEN [g EXCEPT !.pc = "waiting", !.lastError = kept, !.thrown = msg]
       ELSE [g EXCEPT !.pc = "rejected", !.lastError = kept, !.thrown = msg]

\* the catch block of attempt `attempt`: wait and go round the loop, or leave it and throw
Caught(g, msg) ==
  IF g.attempt < maxRetries
    THEN [g EXCEPT !.pc = "waiting", !.lastError = msg, !.thrown = msg]
    ELSE [g EXCEPT !.pc = "rejected", !.lastError = msg, !.thrown = msg]

\* the request of the attempt in flight settles
Respond ==
  \E resp \in Responses :
    /\ gen.pc = "calling"
    /\ LET res == AttemptResult(resp)
       IN IF res.ok
            THEN /\ gen' = [gen EXCEPT !.pc = "resolved", !.data = resp.data,
                                       !.result = res.plan]
                 /\ timers' = timers
            ELSE /\ gen' = Caught(gen, res.msg)
                 /\ timers' = IF gen.attempt < maxRetries
                                THEN timers \cup {[run |-> 0, idx |-> gen.attempt,
                                                   due |-> gen.clock + backoffMs(gen.attempt)]}
                                ELSE timers
    /\ UNCHANGED <<apiKey, mounted, appVars, genCount, runs, effectRun, trace>>

\* time passes until the backoff timer is due: the next attempt's request goes out
WaitDone ==
  \E t \in timers :
    /\ t.run = 0
    /\ CanFire(t)
    /\ gen.pc = "waiting"
    /\ LET d == Remaining(t)
       IN /\ gen' = [gen EXCEPT !.pc = "calling", !.attempt = @ + 1, !.clock = @ + d,
                                !.starts = Append(@, gen.clock + d)]
          /\ timers' = timers \ {t}
          /\ runs' = Advance(runs, d)
    /\ UNCHANGED <<apiKey, mounted, appVars, genCount, effectRun, trace>>

(* ------------------------------ App handlers ---------------------------- *)
\* err.message?.includes(keyword)
Includes(msg, keyword) ==
  keyword \in (CASE msg = "API Key is missing" -> {"API Key"}
                 [] msg = "blocked by safety" -> {"safety"}
                 [] msg = "429 quota exceeded" -> {"quota", "429"}
                 [] msg = "API Key not valid: quota 429" -> {"API Key", "quota", "429"}
                 [] msg = "safety block after quota" -> {"safety", "quota"}
                 [] OTHER -> {})

\* the chain with the quota test ahead of the safety test
friendlyMessageQuotaFirst(msg) ==
  IF Includes(msg, "API Key") THEN "The Gemini API Key is invalid or missing."
  ELSE IF Includes(msg, "quota") \/ Includes(msg, "429") THEN "API quota exceeded."
  ELSE IF Includes(msg, "safety") THEN "The experiment plan was blocked by safety filters."
  ELSE "We encountered an unexpected error while designing your experiment suite."

friendlyMessage(msg) ==
  IF Includes(msg, "API Key") THEN "The Gemini API Key is invalid or missing."
  ELSE IF Includes(msg, "safety") THEN "The experiment plan was blocked by safety filters."
  ELSE IF Includes(msg, "quota") \/ Includes(msg, "429") THEN "API quota exceeded."
  ELSE "We encountered an unexpected error while designing your experiment suite."

\* handleGenerate up to its await
handleGenerate(w, goal) ==
  SetState([w EXCEPT !.trace = <<>>],
    [lastGoal |-> goal, status |-> "PLANNING", error |-> NoError, plan |-> NoPlan,
     logs |-> <<>>, currentExperimentId |-> NullId, isFinalizing |-> FALSE])

\* gen holds the latest call; overlap records that it was started while an earlier
\* call of handleGenerate was still in flight
StartGeneration(goal) ==
  /\ genCount < MaxGen
  /\ gen.caller # "direct"
  /\ IF isApiKeyMissing
       THEN UNCHANGED <<mounted, appVars, runs, timers, effectRun, trace, gen, genCount>>
       ELSE /\ Render(handleGenerate(World, goal))
            /\ gen' = [generateExperimentPlan EXCEPT !.caller = "handleGenerate",
                                                      !.overlap = gen.pc # "idle"]
            /\ genCount' = genCount + 1
  /\ UNCHANGED apiKey

\* goal.trim()
Trim(goal) == IF goal \in {"", "  "} THEN "" ELSE goal

\* a form that stays enabled while PLANNING
SubmitWhilePlanning ==
  \E goal \in Typed :
    /\ Trim(goal) # ""
    /\ mounted
    /\ status \in {"IDLE", "PLANNING"}
    /\ ~isApiKeyMissing
    /\ StartGeneration(goal)

\* the form of InputSection, shown while IDLE or PLANNING and disabled while PLANNING
Submit ==
  \E goal \in Typed :
    /\ Trim(goal) # ""
    /\ mounted
    /\ status = "IDLE"
    /\ ~isApiKeyMissing
    /\ StartGeneration(goal)

\* a continuation that sets the status without storing the plan
ResolvedWithoutPlan ==
  /\ gen.caller = "handleGenerate"
  /\ gen.pc = "resolved"
  /\ Render(SetState(World, [status |-> "EXECUTING"]))
  /\ gen' = IdleGen
  /\ UNCHANGED <<apiKey, genCount>>

\* handleGenerate after the await, the plan returned
Resolved ==
  /\ gen.caller = "handleGenerate"
  /\ gen.pc = "resolved"
  /\ Render(SetState(World, [plan |-> gen.result, status |-> "EXECUTING"]))
  /\ gen' = IdleGen
  /\ UNCHANGED <<apiKey, genCount>>

\* a catch block that calls generateExperimentPlan again by itself
RejectedRestarts ==
  /\ gen.caller = "handleGenerate"
  /\ gen.pc = "rejected"
  /\ Render(SetState(World, [error |-> friendlyMessage(gen.lastError), status |-> "ERROR"]))
  /\ gen' = [generateExperimentPlan EXCEPT !.caller = "handleGenerate"]
  /\ UNCHANGED <<apiKey, genCount>>

\* handleGenerate after the await, the error caught
Rejected ==
  /\ gen.caller = "handleGenerate"
  /\ gen.pc = "rejected"
  /\ Render(SetState(World, [error |-> friendlyMessage(gen.lastError), status |-> "ERROR"]))
  /\ gen' = IdleGen
  /\ UNCHANGED <<apiKey, genCount>>

\* the Retry Operation button of the error panel: handleRetry
Retry ==
  /\ mounted
  /\ status = "ERROR"
  /\ IF lastGoal # ""
       THEN StartGeneration(lastGoal)
       ELSE /\ Render(SetState(World, [status |-> "IDLE", error |-> NoError]))
            /\ UNCHANGED <<apiKey, gen, genCount>>

\* a Cancel button that is shown while EXECUTING as well
CancelWhileExecuting ==
  /\ mounted
  /\ status \in {"ERROR", "EXECUTING"}
  /\ Render(SetState(World, [status |-> "IDLE", error |-> NoError]))
  /\ UNCHANGED <<apiKey, gen, genCount>>

\* the Cancel button of the error panel
Cancel ==
  /\ mounted
  /\ status = "ERROR"
  /\ Render(SetState(World, [status |-> "IDLE", error |-> NoError]))
  /\ UNCHANGED <<apiKey, gen, genCount>>

\* the Start New Experiment button, shown when COMPLETED
StartNew ==
  /\ mounted
  /\ status = "COMPLETED"
  /\ Render(SetState(World, [status |-> "IDLE"]))
  /\ UNCHANGED <<apiKey, gen, genCount>>

\* React unmounts App: the cleanup of the effect runs
Unmount ==
  /\ mounted
  /\ mounted' = FALSE
  /\ Commit(Unmounted(World))
  /\ UNCHANGED <<apiKey, gen, genCount>>

Next ==
  \/ Submit
  \/ Respond
  \/ WaitDone
  \/ Resolved
  \/ Rejected
  \/ Retry
  \/ Cancel
  \/ StartNew
  \/ FireTimer
  \/ Unmount

Spec == Init /\ [][Next]_vars

(* ------------------- callers other than the rendered form --------------- *)
\* handleGenerate invoked by a caller that does not look at isDisabled
CallHandleGenerate ==
  \E goal \in Goals :
    /\ mounted
    /\ status = "IDLE"
    /\ StartGeneration(goal)

\* generateExperimentPlan invoked outside handleGenerate, on an App that holds no plan
CallGenerate ==
  /\ gen.pc = "idle"
  /\ status = "IDLE"
  /\ plan = NoPlan
  /\ gen' = [generateExperimentPlan EXCEPT !.caller = "direct"]
  /\ UNCHANGED <<apiKey, mounted, appVars, genCount, runs, effectRun, timers, trace>>

\* the promise of that call settles and its caller takes the outcome
Return ==
  /\ gen.caller = "direct"
  /\ gen.pc \in {"resolved", "rejected"}
  /\ gen' = IdleGen
  /\ UNCHANGED <<apiKey, mounted, appVars, genCount, runs, effectRun, timers, trace>>

NextCall ==
  \/ Next
  \/ CallHandleGenerate
  \/ CallGenerate
  \/ Return

SpecCall == Init /\ [][NextCall]_vars

(* ------------------------------------------------------------------------ *)
(*                                 claims                                   *)
(* ------------------------------------------------------------------------ *)
GenTimers == {t \in timers : t.run = 0}
Exps == IF plan = NoPlan THEN <<>> ELSE plan.experiments
Checkpoints(tr) == SelectSeq(tr, LAMBDA e : e.kind = "checkpoint")
Last(s) == s[Len(s)]

\* C1: one invocation of generateExperimentPlan makes at most 4 attempts; it
\* rejects only after the 4th attempt failed, and then with the error of that
\* attempt; it waits for a retry only after the 1st, 2nd or 3rd attempt; once an
\* attempt succeeded no further attempt or wait follows.
C1_AtMostFourAttempts ==
  /\ Len(gen.starts) <= 4
  /\ gen.pc # "idle" => Len(gen.starts) = gen.attempt + 1
  /\ gen.pc = "rejected" => Len(gen.starts) = 4 /\ gen.lastError = gen.thrown
  /\ gen.pc = "waiting" => Len(gen.starts) <= 3 /\ gen.lastError = gen.thrown
  /\ gen.pc = "resolved" => GenTimers = {} /\ gen.result # NoPlan

C1_Witness == gen.pc = "rejected" /\ Len(gen.starts) = 4 /\ gen.thrown = "blocked by safety"

\* C2: the (k+1)-th attempt starts exactly 1000, 2000, 4000 ms after the k-th
\* one failed (k = 1, 2, 3); a backoff timer is pending exactly while the call
\* waits between two attempts, so none follows the 4th failure or a success.
C2_ExponentialBackoff ==
  /\ \A k \in 1..(Len(gen.starts) - 1) :
       gen.starts[k + 1] - gen.starts[k] = <<1000, 2000, 4000>>[k]
  /\ Cardinality(GenTimers) = IF gen.pc = "waiting" THEN 1 ELSE 0
  /\ gen.pc \in {"calling", "resolved", "rejected"} => gen.clock = Last(gen.starts)

C2_Witness == gen.pc = "rejected" /\ gen.clock = 7000

\* C3: a callback of a cancelled run (its cleanup has run) that still fires
\* changes nothing, and every call a callback makes is made by a run that is not
\* cancelled.
C3_NoUpdateAfterCancel ==
  [][/\ \A t \in timers :
          (t.run # 0 /\ t \notin timers' /\ ~runs[t.run].isMounted)
            => UNCHANGED <<appVars, trace>>
     /\ (trace' # trace /\ trace' # <<>>) => runs[Last(trace').run].isMounted]_vars

\* the nested timer of a run cancelled while finalizing has fired
C3_Witness ==
  /\ ~mounted /\ status = "EXECUTING" /\ isFinalizing /\ timers = {}
  /\ Len(trace) > 0 /\ Last(trace).kind = "finalize"

\* C4: every pending timer of a run is in the run's timeoutIds, and a cancelled
\* run has no pending timer.
C4_AllTimersTracked ==
  \A t \in timers :
    t.run # 0 => t.idx \in runs[t.run].timeoutIds /\ runs[t.run].isMounted

\* C5: at most one run is active (mounted, or with tracked timers pending), and
\* the callbacks that mutated the plan since the last generation are one run's.
Active(r) ==
  \/ runs[r].isMounted
  \/ \E t \in timers : t.run = r /\ t.idx \in runs[r].timeoutIds

C5_OneActiveRun ==
  /\ \A r1, r2 \in DOMAIN runs : Active(r1) /\ Active(r2) => r1 = r2
  /\ \A j, k \in DOMAIN trace : trace[j].run = trace[k].run

C5_Witness ==
  /\ Len(runs) = 2 /\ runs[2].isMounted /\ ~Active(1)
  /\ Len(trace) > 0 /\ status = "EXECUTING"

\* C6: the checkpoints of a run reach the experiments in array order, each
\* experiment getting the progress values 0, 15, 30, 45, 60, 75, 90, 100 in that
\* order before the next experiment gets its first; when experiment i+1 gets its
\* first checkpoint, experiment i is completed with progress 100.
C6_SequentialCheckpoints ==
  [][LET cps == Checkpoints(trace')
     IN /\ \A j \in 1..Len(cps) :
             /\ cps[j].exp = ((j - 1) \div 8) + 1
             /\ cps[j].progress = <<0, 15, 30, 45, 60, 75, 90, 100>>[((j - 1) % 8) + 1]
        /\ (trace' # trace /\ trace' # <<>> /\ Last(trace').kind = "checkpoint"
              /\ Last(trace').progress = 0 /\ Last(trace').exp > 1)
             => LET prev == plan.experiments[Last(trace').exp - 1]
                IN prev.progress = 100 /\ prev.status = "completed"]_vars

C6_Witness ==
  /\ mounted /\ Len(trace) = 9 /\ Last(trace).exp = 2 /\ Last(trace).progress = 0
  /\ plan.experiments[2].status = "running"

\* C7: an experiment's status changes only pending -> running and
\* running -> completed.
C7_StatusForwardOnly ==
  [][(plan # NoPlan /\ plan' # NoPlan)
       => \A i \in 1..Len(plan.experiments) :
            \/ plan'.experiments[i].status = plan.experiments[i].status
            \/ <<plan.experiments[i].status, plan'.experiments[i].status>>
                 \in {<<"pending", "running">>, <<"running", "completed">>}]_vars

\* C8 as stated: while EXECUTING exactly one experiment is running and named by
\* currentExperimentId.
C8_ExactlyOneCurrent ==
  status = "EXECUTING" =>
    Cardinality({i \in 1..Len(Exps) :
                   Exps[i].status = "running" /\ Exps[i].id = currentExperimentId}) = 1

Started == Len(SelectSeq(trace, LAMBDA e : e.kind = "checkpoint" /\ e.progress = 0))
Finalized == \E j \in DOMAIN trace : trace[j].kind = "finalize"

\* C8 amended: while EXECUTING every running experiment has the id
\* currentExperimentId names; that id is null before the first checkpoint and
\* from the finalize callback on, and otherwise the id of the experiment started
\* last, the experiments being started in array order.
C8_AtMostOneCurrentId ==
  status = "EXECUTING" =>
    /\ \A i \in 1..Len(Exps) :
         Exps[i].status = "running" => Exps[i].id = currentExperimentId
    /\ currentExperimentId =
         IF Started = 0 \/ Finalized THEN NullId ELSE Exps[Started].id

C8_Witness ==
  /\ status = "EXECUTING" /\ Started = 2 /\ currentExperimentId = "b"
  /\ Exps[2].status = "running" /\ Exps[1].status = "completed"

\* C9: when the App is COMPLETED every experiment is completed, at progress 100,
\* with liveMetrics equal to its simulatedMetrics.
C9_TerminalState ==
  status = "COMPLETED" =>
    \A i \in 1..Len(Exps) :
      /\ Exps[i].status = "completed"
      /\ Exps[i].progress = 100
      /\ Exps[i].liveMetrics = Exps[i].simulatedMetrics

\* C10: a Plan generateExperimentPlan resolves to has pairwise distinct
\* experiment ids, a recommendedWinnerId that resolves (to the experiment it
\* names, else to the first experiment), and accuracies within [0, 1].
C10_ResolvesToValidPlan ==
  gen.pc = "resolved" =>
    LET exps == gen.result.experiments
    IN /\ \A i, j \in 1..Len(exps) : exps[i].id = exps[j].id => i = j
       /\ (\E i \in 1..Len(exps) : exps[i].id = gen.result.recommendedWinnerId)
            \/ Len(exps) >= 1
       /\ \A i \in 1..Len(exps) :
            /\ exps[i].simulatedMetrics.accuracy >= 0
            /\ exps[i].simulatedMetrics.accuracy <= 100000


\* C11: an attempt whose payload lacks a field the schema marks required (of the
\* plan, of an experiment, of its simulatedMetrics) never produces a resolved
\* plan: every plan a call resolves to has every required field.
C11_MissingFieldFails ==
  gen.pc = "resolved" =>
    /\ RequiredPlanFields \subseteq DOMAIN gen.result
    /\ \A i \in 1..Len(gen.result.experiments) :
         /\ RequiredExperimentFields \subseteq DOMAIN gen.result.experiments[i]
         /\ RequiredMetricFields \subseteq DOMAIN gen.result.experiments[i].simulatedMetrics


\* C12: without the API key no request is ever issued: handleGenerate leaves
\* status, plan, logs, error, lastGoal (and the rest of the App state) as they
\* were, and generateExperimentPlan rejects before its first attempt, with no
\* attempt started, no retry and no backoff timer.
C12_NoRequestWithoutKey ==
  isApiKeyMissing =>
    /\ status = "IDLE" /\ plan = NoPlan /\ logs = <<>> /\ error = NoError
    /\ lastGoal = "" /\ currentExperimentId = NullId /\ ~isFinalizing
    /\ gen.starts = <<>> /\ gen.attempt = 0 /\ timers = {}
    /\ gen.pc \in {"idle", "rejected"}
    /\ gen.pc = "rejected" => gen.lastError = "API Key is missing"

C12_Witness == isApiKeyMissing /\ gen.pc = "rejected" /\ gen.caller = "direct"


\* C13: cancellation is idempotent: the cleanup applied to a run that is already
\* cancelled, or to a completed run (all its timers fired, its cleanup run at
\* COMPLETED), changes nothing, and applying it twice equals applying it once.
C13_CancelIdempotent ==
  \A r \in DOMAIN runs :
    /\ Cleanup(Cleanup(World, r), r) = Cleanup(World, r)
    /\ ~runs[r].isMounted => Cleanup(World, r) = World

\* a completed run and a cancelled run whose nested timer is still pending
C13_Witness ==
  /\ ~mounted
  /\ \E r \in DOMAIN runs : runs[r] = Dead /\ r # effectRun
  /\ \E r \in DOMAIN runs :
       ~runs[r].isMounted /\ runs[r] # Dead /\ \E t \in timers : t.run = r


\* the experiments of both plans are the same list, looked at by position
SamePlan == plan # NoPlan /\ plan' # NoPlan /\ Len(plan'.experiments) = Len(plan.experiments)

\* C14: no step sets an experiment's progress to a value lower than its current
\* one: while the plan stays in place, progress never decreases.
C14_ProgressMonotone ==
  [][SamePlan => \A i \in 1..Len(plan.experiments) :
                   plan'.experiments[i].progress >= plan.experiments[i].progress]_vars


\* C15: simulatedMetrics is fixed when the plan is created: a plan appears only as
\* the plan the call resolved to, and while a plan is in place no step changes
\* the number of its experiments or any experiment's simulatedMetrics.
C15_SimulatedMetricsFixed ==
  [][/\ (plan = NoPlan /\ plan' # NoPlan) => plan' = gen.result
     /\ (plan # NoPlan /\ plan' # NoPlan) =>
          /\ SamePlan
          /\ \A i \in 1..Len(plan.experiments) :
               plan'.experiments[i].simulatedMetrics = plan.experiments[i].simulatedMetrics
    ]_vars

\* a checkpoint has written live numbers that differ from the simulated ones
C15_Witness ==
  /\ status = "EXECUTING"
  /\ \E i \in 1..Len(Exps) :
       /\ Exps[i].progress = 45
       /\ Exps[i].liveMetrics.accuracy # Exps[i].simulatedMetrics.accuracy
       /\ Exps[i].simulatedMetrics.accuracy = 90000


\* C16: whenever ResultsView is rendered, no error is raised (a winner exists),
\* the winner is the experiment whose id is recommendedWinnerId when one matches,
\* and the first experiment of the array when none matches.
C16_WinnerOrFirst ==
  ShowsResults(World) =>
    /\ winner(plan) # Undefined
    /\ IF \E i \in 1..Len(Exps) : Exps[i].id = plan.recommendedWinnerId
         THEN winner(plan).id = plan.recommendedWinnerId
         ELSE winner(plan) = Exps[1]


\* C17 as stated: a run that reached COMPLETED has made exactly 8 n + 1
\* state-changing events, the 8 n checkpoints and then the terminal one.
C17_EightNPlusOneEvents ==
  status = "COMPLETED" =>
    /\ Len(trace) = 8 * Len(Exps) + 1
    /\ \A j \in 1..(8 * Len(Exps)) : trace[j].kind = "checkpoint"
    /\ Last(trace).kind = "complete"

\* the kind of the j-th event of a run over n experiments
KindAt(j, n) ==
  IF j <= 8 * n THEN "checkpoint" ELSE IF j = 8 * n + 1 THEN "finalize" ELSE "complete"

\* C17 (amended): a run over n experiments makes at most 8 n + 2 events, in this
\* order: the 8 n checkpoints, the finalize event, the terminal event; each
\* changes the App state, nothing else changes it while EXECUTING, the events
\* happen at strictly ascending times, and a run that reached COMPLETED has
\* made all 8 n + 2 of them.
C17_EightNPlusTwoEvents ==
  [][/\ Len(trace') <= 8 * Len(Exps') + 2
     /\ \A j \in DOMAIN trace' : trace'[j].kind = KindAt(j, Len(Exps'))
     /\ \A j, k \in DOMAIN trace' : j < k => trace'[j].at < trace'[k].at
     /\ status' = "COMPLETED" => Len(trace') = 8 * Len(Exps') + 2
     /\ (trace' # trace /\ trace' # <<>>) =>
          /\ status = "EXECUTING"
          /\ trace' = Append(trace, Last(trace'))
          /\ appVars' # appVars
     /\ (status = "EXECUTING" /\ appVars' # appVars) => trace' # trace
    ]_vars

C17_Witness ==
  /\ status = "COMPLETED" /\ Len(Exps) = MaxExps
  /\ Len(trace) = 8 * MaxExps + 2 /\ Last(trace).kind = "complete"


\* the events of a kind in the trace
EventsOf(kind) == {j \in DOMAIN trace : trace[j].kind = kind}

\* C18 as stated: the terminal event happens 8900 ms per experiment after the
\* start of the run (800+1200+1000+1500+1200+1200+1500+500), nothing added.
C18_TotalIsSumOfDelays ==
  \A j \in EventsOf("complete") : trace[j].at = 8900 * Len(Exps)

\* C18 (amended): the finalize event happens 1500 + 8900 n ms after the start of
\* the run and the terminal event 1500 ms after that, at 3000 + 8900 n ms; the
\* first checkpoint of experiment i happens at 1500 + 8900 (i - 1) ms.
C18_TotalWithLeadAndFinalize ==
  /\ \A j \in EventsOf("finalize") : trace[j].at = 1500 + 8900 * Len(Exps)
  /\ \A j \in EventsOf("complete") : trace[j].at = 3000 + 8900 * Len(Exps)
  /\ \A j \in EventsOf("checkpoint") :
       trace[j].progress = 0 => trace[j].at = 1500 + 8900 * (trace[j].exp - 1)

C18_Witness ==
  /\ status = "COMPLETED" /\ Len(Exps) = 2
  /\ Last(trace).kind = "complete" /\ Last(trace).at = 20800


\* the latest event of the trace after the step is new and of this kind
Happens(kind) == trace' # trace /\ trace' # <<>> /\ Last(trace').kind = kind

\* C19: the finalize event follows checkpoint 8 of the last experiment and appends
\* the two final log lines; the terminal event follows the finalize event, sets
\* status COMPLETED and is the last event of the run, which then is cleaned up
\* and has no timer left; and the App leaves EXECUTING by that event only.
C19_TerminalEventOnlyExit ==
  [][/\ (status = "EXECUTING" /\ status' # "EXECUTING") =>
          Happens("complete") /\ status' = "COMPLETED"
     /\ Happens("finalize") =>
          /\ logs' = addLog(addLog(logs,
                                   Msg("All experiments completed successfully", 0, ""),
                                   "success"),
                            Msg("Generating final comparative report", 0, ""), "info")
          /\ status' = "EXECUTING"
          /\ Len(Exps) > 0 =>
               /\ trace # <<>> /\ Last(trace).kind = "checkpoint"
               /\ Last(trace).exp = Len(Exps) /\ Last(trace).progress = 100
     /\ Happens("complete") =>
          /\ Last(trace).kind = "finalize"
          /\ status = "EXECUTING" /\ status' = "COMPLETED"
          /\ logs' = logs /\ plan' = plan
          /\ ~runs'[Last(trace').run].isMounted
          /\ ~\E t \in timers' : t.run = Last(trace').run
     /\ (trace # <<>> /\ Last(trace).kind = "complete") => trace' \in {trace, <<>>}
    ]_vars

C19_Witness ==
  /\ status = "COMPLETED" /\ Len(Exps) >= 1 /\ Last(trace).kind = "complete"
  /\ logs[Len(logs)].message.text = "Generating final comparative report"
  /\ logs[Len(logs) - 1].message.text = "All experiments completed successfully"


\* the caller unmounted App (no render error did)
CallerCancelled == ~mounted /\ ~RenderThrows(World)

\* C20: a started run that the caller has not cancelled never gets stuck short of
\* COMPLETED: while the status is EXECUTING one of its timers is pending and
\* its callback will act (the run is mounted), so fair firing of the finitely
\* many timers takes it to COMPLETED.
C20_RunNeverStuck ==
  (status = "EXECUTING" /\ ~CallerCancelled) =>
    \E t \in timers : t.run # 0 /\ runs[t.run].isMounted


\* C21: a rejected generation is terminal: the mounted App goes to ERROR with an
\* error message, plan null and no timer scheduled; while in ERROR no call is
\* in flight and none starts by itself; the App leaves ERROR only by Retry
\* (PLANNING, a call started for the same lastGoal) or Cancel (IDLE, error
\* cleared).
C21_FailureIsTerminal ==
  [][/\ (mounted /\ gen.pc = "rejected" /\ gen'.pc # "rejected") =>
          /\ status' = "ERROR" /\ error' # NoError /\ plan' = NoPlan
          /\ timers' = {} /\ gen'.pc = "idle"
     /\ status' = "ERROR" =>
          /\ error' # NoError /\ plan' = NoPlan /\ timers' = {} /\ gen'.pc = "idle"
     /\ (status = "ERROR" /\ status' # "ERROR") =>
          \/ /\ status' = "PLANNING" /\ lastGoal' = lastGoal /\ error' = NoError
             /\ gen'.pc = "calling" /\ genCount' = genCount + 1
          \/ /\ status' = "IDLE" /\ error' = NoError /\ gen' = gen
     /\ (status = "ERROR" /\ status' = "ERROR") => UNCHANGED <<appVars, gen, timers>>
    ]_vars

C21_Witness ==
  /\ mounted /\ status = "ERROR" /\ error = "API quota exceeded."
  /\ plan = NoPlan /\ genCount = 2


\* the fields generateExperimentPlan sets on every experiment
DefaultFields == {"status", "progress", "liveMetrics"}

\* C22: the plan a call resolves to has the parsed experiments in the same order
\* and number, each with status pending, progress 0 and liveMetrics {0, 0, 0}
\* whatever the payload held for them, every other field of an experiment and
\* of the plan being the parsed one, and no field added or dropped.
C22_DefaultsOverridePayload ==
  gen.pc = "resolved" =>
    /\ DOMAIN gen.result = DOMAIN gen.data
    /\ \A k \in DOMAIN gen.data \ {"experiments"} : gen.result[k] = gen.data[k]
    /\ Len(gen.result.experiments) = Len(gen.data.experiments)
    /\ \A i \in 1..Len(gen.data.experiments) :
         LET exp == gen.data.experiments[i]
             out == gen.result.experiments[i]
         IN /\ DOMAIN out = DOMAIN exp \cup DefaultFields
            /\ \A k \in DOMAIN exp \ DefaultFields : out[k] = exp[k]
            /\ out.status = "pending" /\ out.progress = 0
            /\ out.liveMetrics = [accuracy |-> 0, latencyMs |-> 0, modelSizeMb |-> 0]

C22_Witness ==
  /\ gen.pc = "resolved" /\ gen.data = PresetPayload
  /\ gen.data.experiments[1].progress = 100 /\ gen.result.experiments[1].progress = 0


\* the mounted App takes the rejection of the call: the catch block of handleGenerate
Catches == mounted /\ gen.pc = "rejected" /\ gen'.pc = "idle" /\ status' = "ERROR"

\* C23: the error shown after the last attempt failed is the credential message
\* if the final error's message contains "API Key", else the safety message if
\* it contains "safety", else the quota message if it contains "quota" or
\* "429", else the generic message: one of the four, for every error.
C23_FriendlyMessageChain ==
  [][Catches =>
       LET has(k) == Includes(gen.lastError, k)
       IN /\ gen.lastError = gen.thrown
          /\ has("API Key") => error' = "The Gemini API Key is invalid or missing."
          /\ (~has("API Key") /\ has("safety")) =>
               error' = "The experiment plan was blocked by safety filters."
          /\ (~has("API Key") /\ ~has("safety") /\ (has("quota") \/ has("429"))) =>
               error' = "API quota exceeded."
          /\ (~has("API Key") /\ ~has("safety") /\ ~has("quota") /\ ~has("429")) =>
               error' = "We encountered an unexpected error while designing your experiment suite."
    ]_vars

\* an error containing both "safety" and "quota" is shown as the safety message
C23_Witness ==
  /\ status = "ERROR" /\ error = "The experiment plan was blocked by safety filters."
  /\ gen.pc = "idle" /\ genCount = 1


\* C24: between two starts of a generation the log is append-only: a step that
\* changes logs either is handleGenerate starting a generation (logs emptied)
\* or leaves every existing entry where it was and adds the entries of its
\* addLog calls (one per call: 1 for a checkpoint, 2 for finalize, 3 for the
\* start of the simulation) at the end.
C24_LogAppendOnly ==
  [][logs' # logs =>
       \/ /\ logs' = <<>> /\ status' = "PLANNING" /\ genCount' = genCount + 1
       \/ /\ Len(logs') - Len(logs) \in {1, 2, 3}
          /\ SubSeq(logs', 1, Len(logs)) = logs
          /\ genCount' = genCount
    ]_vars

C24_Witness ==
  /\ status = "COMPLETED" /\ Len(Exps) = 1 /\ Len(logs) = 3 + 8 + 2
  /\ logs[1].message.text = "Initializing experiment environment"


\* C25: the plan is discarded on every new generation and every reset: whenever
\* the App is IDLE (initially, after Start New Experiment, after Cancel),
\* PLANNING (after submit or Retry) or ERROR, plan is null.
C25_PlanDiscardedOnReset ==
  status \in {"IDLE", "PLANNING", "ERROR"} => plan = NoPlan


\* C26: no generation is started while another is in flight; a call is in flight
\* only while the status is PLANNING, so never while EXECUTING or COMPLETED;
\* and the plan a call resolved to is stored only where no plan is held and no
\* simulation timer is pending.
C26_OneGenerationInFlight ==
  [][/\ ~gen'.overlap
     /\ gen'.pc # "idle" => status' = "PLANNING"
     /\ (gen.pc = "resolved" /\ gen'.pc = "idle") => plan = NoPlan /\ timers = {}
    ]_vars

\* the second generation of the session is in flight, waiting for a retry
C26_Witness ==
  /\ mounted /\ status = "PLANNING" /\ genCount = 2
  /\ gen.pc = "waiting" /\ gen.attempt = 1


\* the status changes the claim allows
Transitions ==
  {<<"IDLE", "PLANNING">>, <<"PLANNING", "EXECUTING">>, <<"PLANNING", "ERROR">>,
   <<"EXECUTING", "COMPLETED">>, <<"COMPLETED", "IDLE">>, <<"ERROR", "PLANNING">>,
   <<"ERROR", "IDLE">>}

\* C27: the status changes only along IDLE -> PLANNING, PLANNING -> EXECUTING,
\* PLANNING -> ERROR, EXECUTING -> COMPLETED, COMPLETED -> IDLE, ERROR -> PLANNING
\* and ERROR -> IDLE; EXECUTING is entered with a plan, ERROR with a non-empty
\* lastGoal, and Retry from ERROR starts a generation.
C27_StatusTransitions ==
  [][status' # status =>
       /\ <<status, status'>> \in Transitions
       /\ status' = "EXECUTING" => plan' # NoPlan
       /\ status' = "ERROR" => lastGoal' # "" /\ Trim(lastGoal') # ""
       /\ <<status, status'>> = <<"ERROR", "PLANNING">> =>
            gen'.pc = "calling" /\ lastGoal' = lastGoal
    ]_vars

\* back in IDLE after the run of the second generation completed
C27_Witness ==
  /\ mounted /\ status = "IDLE" /\ genCount = 2 /\ plan # NoPlan
  /\ \E j \in DOMAIN trace : trace[j].kind = "complete"


\* the fields the checkpoints' updates carry
UpdateFields == {"progress", "status", "liveMetrics"}

DistinctIds == \A i, j \in 1..Len(Exps) : Exps[i].id = Exps[j].id => i = j

\* C29: for an experiment whose final accuracy lies in [0, 1] (0..100000 in
\* units of 1e-5), of a plan with distinct ids, liveMetrics.accuracy never
\* exceeds simulatedMetrics.accuracy and, from checkpoint 4 (progress 45) on,
\* never decreases.
C29_LiveAccuracyMonotone ==
  [][(SamePlan /\ DistinctIds) =>
       \A i \in 1..Len(Exps) :
         LET final == Exps[i].simulatedMetrics.accuracy
             old == Exps[i].liveMetrics.accuracy
             new == plan'.experiments[i].liveMetrics.accuracy
         IN final \in 0..100000 =>
              /\ new <= final
              /\ Exps[i].progress >= 45 => new >= old
    ]_vars


\* C30: whenever the results are shown for a plan with at least one experiment
\* (ids distinct), exactly one row is marked as winner and it is the experiment
\* the banner shows, also when recommendedWinnerId matches no experiment.
C30_BannerMatchesRows ==
  (ShowsResults(World) /\ Len(Exps) >= 1 /\ DistinctIds) =>
    \E i \in 1..Len(Exps) :
      /\ Exps[i] = winner(plan)
      /\ \A j \in 1..Len(Exps) : isWinner(plan, Exps[j]) <=> j = i

============================================================================
